---------------------------- MODULE Spec2Model ----------------------------
(***************************************************************************)
(* A model of MessageHeaders::MessageHeaders (RFC 2822 style header        *)
(* parsing, storage and generation).                                       *)
(*                                                                         *)
(* Text (std::string) is a sequence of character codes; offsets into text  *)
(* are 0-based as in the source, so the character at offset i of s is      *)
(* s[i+1].  Codes used below: 9 tab, 10 LF, 13 CR, 32 space, 44 ',',       *)
(* 58 ':', 65 'A', 66 'B', 88 'X', 97 'a', 98 'b', 99 'c'.                 *)
(***************************************************************************)
EXTENDS Integers, Sequences, FiniteSets, TLC

VARIABLES
    headers,          \* impl_->headers: sequence of [name, value]
    lineLengthLimit,  \* impl_->lineLengthLimit
    last,             \* name of the most recent call on the instance
    call,             \* arguments and results of the most recent non-const call
    pre,              \* impl_->headers as it was when that call began
    generated,        \* what the most recent GenerateRawHeaders returned
    previous          \* the instance and generated as that call found them

vars == <<headers, lineLengthLimit, last, call, pre, generated, previous>>

-----------------------------------------------------------------------------
(* std::string primitives *)

WSP == <<32, 9>>

CRLF == <<13, 10>>

npos == -1

Min(S) == CHOOSE x \in S : \A y \in S : x <= y

Range(s) == {s[i] : i \in 1..Len(s)}

\* s.substr(pos, n): at most n characters from offset pos, clamped to the end.
Substr(s, pos, n) == SubSeq(s, pos + 1, IF pos + n > Len(s) THEN Len(s) ELSE pos + n)

\* s.find(pat, from): offset of the leftmost occurrence at or after from.
Find(s, pat, from) ==
    LET hits == {i \in from..(Len(s) - Len(pat)) : SubSeq(s, i + 1, i + Len(pat)) = pat}
    IN IF hits = {} THEN npos ELSE Min(hits)

\* s.find_first_not_of(set, from)
FindFirstNotOf(s, set, from) ==
    LET hits == {i \in from..(Len(s) - 1) : s[i + 1] \notin Range(set)}
    IN IF hits = {} THEN npos ELSE Min(hits)

\* s.find_last_not_of(set)
FindLastNotOf(s, set) ==
    LET hits == {i \in 0..(Len(s) - 1) : s[i + 1] \notin Range(set)}
    IN IF hits = {} THEN npos ELSE CHOOSE x \in hits : \A y \in hits : y <= x

\* Variant of StripMarginWhitespace: the text is kept as it is.
StripMarginWhitespace_Keep(s) == s

StripMarginWhitespace(s) ==
    LET marginLeft == FindFirstNotOf(s, WSP, 0)
        marginRight == FindLastNotOf(s, WSP)
    IN IF marginLeft = npos THEN <<>>
       ELSE Substr(s, marginLeft, marginRight - marginLeft + 1)

\* As written in the source: TRUE when s does NOT end with e.
EndsWith(s, e) ==
    \/ Len(s) < Len(e)
    \/ Substr(s, Len(s) - Len(e), Len(e)) # e

RECURSIVE CombineFrom(_, _, _)
CombineFrom(strings, delimiter, i) ==
    IF i > Len(strings) THEN <<>>
    ELSE (IF i = 1 THEN <<>> ELSE delimiter) \o strings[i]
         \o CombineFrom(strings, delimiter, i + 1)

CombineStrings(strings, delimiter) == CombineFrom(strings, delimiter, 1)

\* Variant of IsInvisibleAscii: only control characters are invisible.
IsInvisibleAscii_ControlOnly(c) == c < 32

\* Variant of IsInvisibleAscii: the characters of a line break pass.
IsInvisibleAscii_ExceptLineBreaks(c) == (c < 33 /\ c # 13 /\ c # 10) \/ (c > 126)

IsInvisibleAscii(c) == (c < 33) \/ (c > 126)

-----------------------------------------------------------------------------
(* Parsing *)

SeparateHeaderNameAndValue(rawMessage, lineStart, lineEnd) ==
    LET nameValueDelimiter == Find(rawMessage, <<58>>, lineStart)
        name == Substr(rawMessage, lineStart, nameValueDelimiter - lineStart)
    IN IF nameValueDelimiter = npos
       THEN [ok |-> FALSE]
       ELSE IF \E i \in 1..Len(name) : IsInvisibleAscii(name[i])
       THEN [ok |-> FALSE]
       ELSE [ok |-> TRUE,
             name |-> name,
             value |-> Substr(rawMessage, nameValueDelimiter + 1,
                              lineEnd - nameValueDelimiter - 1)]

\* The unfolding test of the lookahead: the next line is merged when it is
\* longer than the terminator and starts with a space or tab.
IsUnfoldedLine(rawMessage, nextLineStart, nextLineLength) ==
    /\ nextLineLength > Len(CRLF)
    /\ rawMessage[nextLineStart + 1] \in Range(WSP)

\* Variant of AdvanceAndUnfold: a lookahead that finds no terminated line
\* ends the header quietly.
RECURSIVE AdvanceAndUnfold_Lenient(_, _, _, _)
AdvanceAndUnfold_Lenient(rawMessage, offset, lineTerminator, value) ==
    LET nextLineStart == lineTerminator + Len(CRLF)
        nextLineTerminator == Find(rawMessage, CRLF, nextLineStart)
        nextLineLength == nextLineTerminator - nextLineStart
        firstNonWhitespaceInNextLine == FindFirstNotOf(rawMessage, WSP, nextLineStart)
    IN IF nextLineTerminator = npos
       THEN [ok |-> TRUE, offset |-> offset,
             lineTerminator |-> lineTerminator, value |-> value]
       ELSE IF IsUnfoldedLine(rawMessage, nextLineStart, nextLineLength)
       THEN AdvanceAndUnfold_Lenient(
                rawMessage,
                nextLineTerminator + Len(CRLF),
                nextLineTerminator,
                value \o <<32>>
                      \o Substr(rawMessage, firstNonWhitespaceInNextLine,
                                nextLineLength
                                - (firstNonWhitespaceInNextLine - nextLineStart)))
       ELSE [ok |-> TRUE, offset |-> offset,
             lineTerminator |-> lineTerminator, value |-> value]

RECURSIVE AdvanceAndUnfold(_, _, _, _)
AdvanceAndUnfold(rawMessage, offset, lineTerminator, value) ==
    LET nextLineStart == lineTerminator + Len(CRLF)
        nextLineTerminator == Find(rawMessage, CRLF, nextLineStart)
        nextLineLength == nextLineTerminator - nextLineStart
        firstNonWhitespaceInNextLine == FindFirstNotOf(rawMessage, WSP, nextLineStart)
    IN IF nextLineTerminator = npos
       THEN [ok |-> FALSE]
       ELSE IF IsUnfoldedLine(rawMessage, nextLineStart, nextLineLength)
       THEN AdvanceAndUnfold(
                rawMessage,
                nextLineTerminator + Len(CRLF),
                nextLineTerminator,
                value \o <<32>>
                      \o Substr(rawMessage, firstNonWhitespaceInNextLine,
                                nextLineLength
                                - (firstNonWhitespaceInNextLine - nextLineStart)))
       ELSE [ok |-> TRUE, offset |-> offset,
             lineTerminator |-> lineTerminator, value |-> value]

\* Variant of LineTooLong: a line of exactly the limit is already too long.
LineTooLong_Inclusive(limit, offset, lineTerminator) ==
    /\ limit > 0
    /\ lineTerminator + Len(CRLF) - offset >= limit

\* Variant of LineTooLong: the limit 0 is taken at face value.
LineTooLong_ZeroCounts(limit, offset, lineTerminator) ==
    lineTerminator + Len(CRLF) - offset > limit

\* The limit test made on each line the main loop finds.
LineTooLong(limit, offset, lineTerminator) ==
    /\ limit > 0
    /\ lineTerminator + Len(CRLF) - offset > limit

\* Variant of StoreParsed: the parsed header replaces what was held.
StoreParsed_Replacing(hdrs, name, value) ==
    <<[name |-> name, value |-> StripMarginWhitespace(value)]>>

\* Variant of StoreParsed: the value is stored as it was cut from the lines.
StoreParsed_Unstripped(hdrs, name, value) ==
    Append(hdrs, [name |-> name, value |-> value])

\* What the loop appends once name, value and lookahead have succeeded.
StoreParsed(hdrs, name, value) ==
    Append(hdrs, [name |-> name, value |-> StripMarginWhitespace(value)])

\* The result of a parse that returns false: hdrs is what the collection holds
\* at that moment and lineStart is where the line being processed began.
ParseFailed(hdrs, lineStart) ==
    [ok |-> FALSE, headers |-> hdrs, bodyOffset |-> npos, lineStart |-> lineStart]

\* Variant of ParseFinish: no test that a line was consumed.
ParseFinish_Unchecked(hdrs, offset) ==
    [ok |-> TRUE, headers |-> hdrs, bodyOffset |-> offset, lineStart |-> offset]

\* Variant of ParseFinish: the offset reported is that of the line the loop
\* stopped at.
ParseFinish_BeforeEmptyLine(hdrs, offset) ==
    IF offset = 0 THEN ParseFailed(hdrs, offset)
    ELSE [ok |-> TRUE, headers |-> hdrs, bodyOffset |-> offset - 2, lineStart |-> offset]

\* The code after the loop.
ParseFinish(hdrs, offset) ==
    IF offset = 0
    THEN ParseFailed(hdrs, offset)
    ELSE [ok |-> TRUE, headers |-> hdrs, bodyOffset |-> offset, lineStart |-> offset]

RECURSIVE ParseLoop(_, _, _, _)
ParseLoop(hdrs, limit, rawMessage, offset) ==
    IF ~(offset < Len(rawMessage))
    THEN ParseFinish(hdrs, offset)
    ELSE
      LET lineTerminator == Find(rawMessage, CRLF, offset)
          sep == SeparateHeaderNameAndValue(rawMessage, offset, lineTerminator)
          unf == AdvanceAndUnfold(rawMessage, lineTerminator + Len(CRLF),
                                  lineTerminator, sep.value)
      IN IF lineTerminator = npos THEN ParseFinish(hdrs, offset)
         ELSE IF LineTooLong(limit, offset, lineTerminator)
              THEN ParseFailed(hdrs, offset)
         ELSE IF lineTerminator = offset THEN ParseFinish(hdrs, offset + 2)
         ELSE IF ~sep.ok THEN ParseFailed(hdrs, offset)
         ELSE IF ~unf.ok THEN ParseFailed(hdrs, offset)
         ELSE ParseLoop(StoreParsed(hdrs, sep.name, unf.value),
                        limit, rawMessage, unf.offset)

\* Variant of ParseRawMessageOn: a failed parse gives back the collection it
\* was called on.
ParseRawMessageOn_AllOrNothing(hdrs, limit, rawMessage) ==
    LET r == ParseLoop(hdrs, limit, rawMessage, 0)
    IN IF r.ok THEN r ELSE [r EXCEPT !.headers = hdrs]

\* bool ParseRawMessage(rawMessage, bodyOffset) run on a collection hdrs.
ParseRawMessageOn(hdrs, limit, rawMessage) == ParseLoop(hdrs, limit, rawMessage, 0)

-----------------------------------------------------------------------------
(* Header names and the collection's const methods *)

\* tolower() on an ASCII character code.
tolower(c) == IF c \in 65..90 THEN c + 32 ELSE c

\* Variant of HeaderNameEq: names compared as they are written.
HeaderNameEq_CaseSensitive(lhs, rhs) == lhs = rhs

\* HeaderName::operator==
HeaderNameEq(lhs, rhs) ==
    IF Len(lhs) # Len(rhs) THEN FALSE
    ELSE \A i \in 1..Len(lhs) : tolower(lhs[i]) = tolower(rhs[i])

HasHeader(hdrs, name) == \E i \in 1..Len(hdrs) : HeaderNameEq(hdrs[i].name, name)

RECURSIVE GetHeaderValueFrom(_, _, _, _)
GetHeaderValueFrom(hdrs, name, i, isFirstValue) ==
    IF i > Len(hdrs) THEN <<>>
    ELSE IF HeaderNameEq(hdrs[i].name, name)
         THEN (IF isFirstValue THEN <<>> ELSE <<44>>) \o hdrs[i].value
              \o GetHeaderValueFrom(hdrs, name, i + 1, FALSE)
         ELSE GetHeaderValueFrom(hdrs, name, i + 1, isFirstValue)

\* Variant of GetHeaderValue: the first value is not treated as the first.
GetHeaderValue_LeadingComma(hdrs, name) == GetHeaderValueFrom(hdrs, name, 1, FALSE)

GetHeaderValue(hdrs, name) == GetHeaderValueFrom(hdrs, name, 1, TRUE)

RECURSIVE GetHeaderMultiValueFrom(_, _, _)
GetHeaderMultiValueFrom(hdrs, name, i) ==
    IF i > Len(hdrs) THEN <<>>
    ELSE (IF HeaderNameEq(hdrs[i].name, name) THEN <<hdrs[i].value>> ELSE <<>>)
         \o GetHeaderMultiValueFrom(hdrs, name, i + 1)

GetHeaderMultiValue(hdrs, name) == GetHeaderMultiValueFrom(hdrs, name, 1)

-----------------------------------------------------------------------------
(* The collection's mutators, as functions from the old to the new contents *)

\* Variant of AddHeaderTo: a value added under a name already held is merged
\* into the last entry of that name.
AddHeaderTo_Merging(hdrs, name, value) ==
    IF \E i \in 1..Len(hdrs) : HeaderNameEq(hdrs[i].name, name)
    THEN LET held == CHOOSE i \in 1..Len(hdrs) :
                        /\ HeaderNameEq(hdrs[i].name, name)
                        /\ \A k \in (i + 1)..Len(hdrs) : ~HeaderNameEq(hdrs[k].name, name)
         IN [hdrs EXCEPT ![held].value = @ \o <<44>> \o value]
    ELSE Append(hdrs, [name |-> name, value |-> value])

\* Variant of AddHeaderTo: the new entry is put in front of the entries held.
AddHeaderTo_AtFront(hdrs, name, value) == <<[name |-> name, value |-> value]>> \o hdrs

AddHeaderTo(hdrs, name, value) == Append(hdrs, [name |-> name, value |-> value])

\* The loop of SetHeader: the first match gets the value, later matches are erased.
RECURSIVE SetHeaderLoop(_, _, _, _, _)
SetHeaderLoop(hdrs, name, value, i, haveSetValues) ==
    IF i > Len(hdrs) THEN [headers |-> <<>>, haveSetValues |-> haveSetValues]
    ELSE IF HeaderNameEq(hdrs[i].name, name)
         THEN IF haveSetValues
              THEN SetHeaderLoop(hdrs, name, value, i + 1, TRUE)
              ELSE LET rest == SetHeaderLoop(hdrs, name, value, i + 1, TRUE)
                   IN [rest EXCEPT !.headers =
                          <<[name |-> hdrs[i].name, value |-> value]>> \o @]
         ELSE LET rest == SetHeaderLoop(hdrs, name, value, i + 1, haveSetValues)
              IN [rest EXCEPT !.headers = <<hdrs[i]>> \o @]

\* Variant of SetHeaderIn: the first match takes the value and the later
\* matches stay.
SetHeaderIn_KeepLater(hdrs, name, value) ==
    IF \E i \in 1..Len(hdrs) : HeaderNameEq(hdrs[i].name, name)
    THEN LET first == Min({i \in 1..Len(hdrs) : HeaderNameEq(hdrs[i].name, name)})
         IN [hdrs EXCEPT ![first].value = value]
    ELSE Append(hdrs, [name |-> name, value |-> value])

SetHeaderIn(hdrs, name, value) ==
    LET done == SetHeaderLoop(hdrs, name, value, 1, FALSE)
    IN IF ~done.haveSetValues
       THEN AddHeaderTo(done.headers, name, value)
       ELSE done.headers

RECURSIVE AddEach(_, _, _, _)
AddEach(hdrs, name, values, i) ==
    IF i > Len(values) THEN hdrs
    ELSE AddEach(AddHeaderTo(hdrs, name, values[i]), name, values, i + 1)

\* Variant of SetHeaderValuesIn: with oneLine unset the values are added and
\* the entries already held under the name stay.
SetHeaderValuesIn_Adding(hdrs, name, values, oneLine) ==
    IF values = <<>> THEN hdrs
    ELSE IF oneLine THEN SetHeaderIn(hdrs, name, CombineStrings(values, <<44>>))
    ELSE AddEach(hdrs, name, values, 1)

SetHeaderValuesIn(hdrs, name, values, oneLine) ==
    IF values = <<>> THEN hdrs
    ELSE IF oneLine THEN SetHeaderIn(hdrs, name, CombineStrings(values, <<44>>))
    ELSE AddEach(SetHeaderIn(hdrs, name, values[1]), name, values, 2)

\* Variant of AddHeaderValuesTo: an empty list is not returned on early.
AddHeaderValuesTo_NoEmptyCheck(hdrs, name, values, oneLine) ==
    IF oneLine THEN AddHeaderTo(hdrs, name, CombineStrings(values, <<44>>))
    ELSE AddEach(hdrs, name, values, 1)

AddHeaderValuesTo(hdrs, name, values, oneLine) ==
    IF values = <<>> THEN hdrs
    ELSE IF oneLine THEN AddHeaderTo(hdrs, name, CombineStrings(values, <<44>>))
    ELSE AddEach(hdrs, name, values, 1)

\* Variant of RemoveHeaderFrom: the scan stops at the first entry it erases.
RECURSIVE RemoveHeaderFrom_FirstOnly(_, _, _)
RemoveHeaderFrom_FirstOnly(hdrs, name, i) ==
    IF i > Len(hdrs) THEN <<>>
    ELSE IF HeaderNameEq(hdrs[i].name, name) THEN SubSeq(hdrs, i + 1, Len(hdrs))
    ELSE <<hdrs[i]>> \o RemoveHeaderFrom_FirstOnly(hdrs, name, i + 1)

RECURSIVE RemoveHeaderFrom(_, _, _)
RemoveHeaderFrom(hdrs, name, i) ==
    IF i > Len(hdrs) THEN <<>>
    ELSE (IF HeaderNameEq(hdrs[i].name, name) THEN <<>> ELSE <<hdrs[i]>>)
         \o RemoveHeaderFrom(hdrs, name, i + 1)

-----------------------------------------------------------------------------
(* Generating: the folding strategy, SplitLine and GenerateRawHeaders *)

\* Variant of ReservedCharacters: one more character is always reserved.
ReservedCharacters_Three(firstPartIsSet) == 3

\* const auto reservedCharacters = 2 + (firstPart ? 0 : 1), where firstPart is
\* the std::shared_ptr<bool> itself: the test is of the pointer (is it set),
\* not of the flag it points to.
ReservedCharacters(firstPartIsSet) == 2 + (IF firstPartIsSet THEN 0 ELSE 1)

\* The loop of the folding strategy over i = from .. upper: flag is *firstPart,
\* breakOffset the last candidate found so far.
RECURSIVE FoldScan(_, _, _, _, _)
FoldScan(s, i, upper, flag, breakOffset) ==
    IF i > upper THEN [flag |-> flag, breakOffset |-> breakOffset]
    ELSE IF s[i + 1] \in Range(WSP)
         THEN IF flag
              THEN FoldScan(s, i + 1, upper, FALSE, breakOffset)
              ELSE FoldScan(s, i + 1, upper, flag, i)
         ELSE FoldScan(s, i + 1, upper, flag, breakOffset)

\* One call of the function object MakeHeaderLineFoldingStrategy returns, with
\* *firstPart passed in and out as flag.  undefined: the loop's upper bound
\* startOffset + lineLengthLimit - reservedCharacters wraps around in size_t
\* and the loop indexes s past its end.
HeaderLineFoldingStrategy(limit, s, startOffset, flag) ==
    LET reservedCharacters == ReservedCharacters(TRUE)
        scan == FoldScan(s, startOffset,
                         startOffset + limit - reservedCharacters,
                         flag, startOffset)
    IN IF Len(s) - startOffset <= limit
       THEN [ok |-> TRUE, undefined |-> FALSE, flag |-> flag,
             breakOffset |-> Len(s), nextOffset |-> Len(s)]
       ELSE IF startOffset + limit - reservedCharacters < 0
       THEN [ok |-> FALSE, undefined |-> TRUE, flag |-> flag,
             breakOffset |-> startOffset, nextOffset |-> startOffset]
       ELSE [ok |-> scan.breakOffset # startOffset, undefined |-> FALSE,
             flag |-> scan.flag,
             breakOffset |-> scan.breakOffset,
             nextOffset |-> scan.breakOffset + 1]

\* The part SplitLine pushes for input[currentLineStart, breakOffset).
SplitPart(input, terminator, continuator, currentLineStart, breakOffset, output) ==
    LET part == (IF output # <<>> THEN continuator ELSE <<>>)
                \o Substr(input, currentLineStart, breakOffset - currentLineStart)
    IN IF EndsWith(part, terminator) THEN part \o terminator ELSE part

\* Variant of SplitLoop: when the strategy finds no break, the parts pushed
\* so far are returned.
RECURSIVE SplitLoop_KeepParts(_, _, _, _, _, _, _)
SplitLoop_KeepParts(limit, input, terminator, continuator, currentLineStart, output, flag) ==
    IF ~(currentLineStart < Len(input))
    THEN [undefined |-> FALSE, output |-> output]
    ELSE LET brk == HeaderLineFoldingStrategy(limit, input, currentLineStart, flag)
         IN IF brk.undefined THEN [undefined |-> TRUE, output |-> <<>>]
            ELSE IF ~brk.ok THEN [undefined |-> FALSE, output |-> output]
            ELSE SplitLoop_KeepParts(limit, input, terminator, continuator,
                           brk.nextOffset,
                           Append(output,
                                  SplitPart(input, terminator, continuator,
                                            currentLineStart, brk.breakOffset,
                                            output)),
                           brk.flag)

\* The while loop of SplitLine with the header line folding strategy.
RECURSIVE SplitLoop(_, _, _, _, _, _, _)
SplitLoop(limit, input, terminator, continuator, currentLineStart, output, flag) ==
    IF ~(currentLineStart < Len(input))
    THEN [undefined |-> FALSE, output |-> output]
    ELSE LET brk == HeaderLineFoldingStrategy(limit, input, currentLineStart, flag)
         IN IF brk.undefined THEN [undefined |-> TRUE, output |-> <<>>]
            ELSE IF ~brk.ok THEN [undefined |-> FALSE, output |-> <<>>]
            ELSE SplitLoop(limit, input, terminator, continuator,
                           brk.nextOffset,
                           Append(output,
                                  SplitPart(input, terminator, continuator,
                                            currentLineStart, brk.breakOffset,
                                            output)),
                           brk.flag)

\* SplitLine(input, terminator, continuator, MakeHeaderLineFoldingStrategy()):
\* a fresh strategy object starts with *firstPart = true.
SplitLine(limit, input, terminator, continuator) ==
    SplitLoop(limit, input, terminator, continuator, 0, <<>>, TRUE)

RECURSIVE Concat(_)
Concat(parts) == IF parts = <<>> THEN <<>> ELSE Head(parts) \o Concat(Tail(parts))

\* Variant of ComposeLine: no space after the colon.
ComposeLine_NoSpace(header) == header.name \o <<58>> \o header.value \o CRLF

\* lineBuffer << header.name << ": " << header.value << CRLF
ComposeLine(header) == header.name \o <<58, 32>> \o header.value \o CRLF

\* What one header contributes to the output of GenerateRawHeaders.
GenerateHeader(limit, header) ==
    IF limit > 0
    THEN LET split == SplitLine(limit, ComposeLine(header), CRLF, <<32>>)
         IN [undefined |-> split.undefined, text |-> Concat(split.output)]
    ELSE [undefined |-> FALSE, text |-> ComposeLine(header)]

RECURSIVE GenerateFrom(_, _, _)
GenerateFrom(hdrs, limit, i) ==
    IF i > Len(hdrs) THEN [undefined |-> FALSE, text |-> CRLF]
    ELSE LET one == GenerateHeader(limit, hdrs[i])
             rest == GenerateFrom(hdrs, limit, i + 1)
         IN [undefined |-> one.undefined \/ rest.undefined,
             text |-> one.text \o rest.text]

\* Variant of GenerateRawHeadersOf: the line that ends the header block is
\* not written.
GenerateRawHeadersOf_NoFinalCrlf(hdrs, limit) ==
    LET all == GenerateFrom(hdrs, limit, 1)
    IN [all EXCEPT !.text = SubSeq(@, 1, Len(@) - 2)]

\* std::string GenerateRawHeaders() const, on a collection hdrs.
GenerateRawHeadersOf(hdrs, limit) == GenerateFrom(hdrs, limit, 1)

-----------------------------------------------------------------------------
(* The instance as a state machine: one action per public method *)

\* generated before any call of GenerateRawHeaders, and after the collection
\* or the limit has changed since.
NotGenerated == [returned |-> FALSE, text |-> <<>>]

\* What a call of GenerateRawHeaders that runs into undefined behaviour may
\* do: not return at all, or return some text.
UndefinedOutcomes ==
    {NotGenerated} \cup {[returned |-> TRUE, text |-> t] : t \in {<<>>, CRLF, <<88>>}}

\* No call of GenerateRawHeaders is the most recent call.
NoPrevious == [headers |-> <<>>, lineLengthLimit |-> 0, generated |-> NotGenerated]

Init ==
    /\ headers = <<>>
    /\ lineLengthLimit = 0
    /\ last = "MessageHeaders"
    /\ call = [op |-> "MessageHeaders"]
    /\ pre = <<>>
    /\ generated = NotGenerated
    /\ previous = NoPrevious

SetLineLimit(newLineLengthLimit) ==
    /\ lineLengthLimit' = newLineLengthLimit
    /\ last' = "SetLineLimit"
    /\ call' = [op |-> "SetLineLimit", limit |-> newLineLengthLimit]
    /\ pre' = headers
    /\ generated' = NotGenerated
    /\ previous' = NoPrevious
    /\ UNCHANGED headers

ParseRawMessage(rawMessage) ==
    LET r == ParseRawMessageOn(headers, lineLengthLimit, rawMessage)
    IN /\ headers' = r.headers
       /\ last' = "ParseRawMessage"
       /\ call' = [op |-> "ParseRawMessage", rawMessage |-> rawMessage,
                   limit |-> lineLengthLimit, ok |-> r.ok,
                   bodyOffset |-> r.bodyOffset, lineStart |-> r.lineStart]
       /\ pre' = headers
       /\ generated' = NotGenerated
       /\ previous' = NoPrevious
       /\ UNCHANGED lineLengthLimit

\* Variant of GenerateRawHeaders: the folding strategy, and with it the
\* first-part flag, is made once for the instance and not per header, so a
\* call that follows another call finds the flag cleared.
GenerateRawHeaders_SharedStrategy ==
    LET firstPart == last # "GenerateRawHeaders"
        text(h) == IF lineLengthLimit > 0
                   THEN Concat(SplitLoop(lineLengthLimit, ComposeLine(h), CRLF, <<32>>,
                                         0, <<>>, firstPart).output)
                   ELSE ComposeLine(h)
    IN /\ last' = "GenerateRawHeaders"
       /\ generated' = [returned |-> TRUE,
                        text |-> Concat([i \in 1..Len(headers) |-> text(headers[i])])
                                 \o CRLF]
       /\ previous' = [headers |-> headers, lineLengthLimit |-> lineLengthLimit,
                       generated |-> generated]
       /\ UNCHANGED <<headers, lineLengthLimit, call, pre>>

GenerateRawHeaders ==
    LET r == GenerateRawHeadersOf(headers, lineLengthLimit)
    IN /\ last' = "GenerateRawHeaders"
       /\ IF r.undefined
          THEN generated' \in UndefinedOutcomes
          ELSE generated' = [returned |-> TRUE, text |-> r.text]
       /\ previous' = [headers |-> headers, lineLengthLimit |-> lineLengthLimit,
                       generated |-> generated]
       /\ UNCHANGED <<headers, lineLengthLimit, call, pre>>

SetHeader(name, value) ==
    /\ headers' = SetHeaderIn(headers, name, value)
    /\ last' = "SetHeader"
    /\ call' = [op |-> "SetHeader", name |-> name, value |-> value]
    /\ pre' = headers
    /\ generated' = NotGenerated
    /\ previous' = NoPrevious
    /\ UNCHANGED lineLengthLimit

SetHeaderValues(name, values, oneLine) ==
    /\ headers' = SetHeaderValuesIn(headers, name, values, oneLine)
    /\ last' = "SetHeaderValues"
    /\ call' = [op |-> "SetHeaderValues", name |-> name, values |-> values,
                oneLine |-> oneLine]
    /\ pre' = headers
    /\ generated' = NotGenerated
    /\ previous' = NoPrevious
    /\ UNCHANGED lineLengthLimit

AddHeader(name, value) ==
    /\ headers' = AddHeaderTo(headers, name, value)
    /\ last' = "AddHeader"
    /\ call' = [op |-> "AddHeader", name |-> name, value |-> value]
    /\ pre' = headers
    /\ generated' = NotGenerated
    /\ previous' = NoPrevious
    /\ UNCHANGED lineLengthLimit

AddHeaderValues(name, values, oneLine) ==
    /\ headers' = AddHeaderValuesTo(headers, name, values, oneLine)
    /\ last' = "AddHeaderValues"
    /\ call' = [op |-> "AddHeaderValues", name |-> name, values |-> values,
                oneLine |-> oneLine]
    /\ pre' = headers
    /\ generated' = NotGenerated
    /\ previous' = NoPrevious
    /\ UNCHANGED lineLengthLimit

RemoveHeader(name) ==
    /\ headers' = RemoveHeaderFrom(headers, name, 1)
    /\ last' = "RemoveHeader"
    /\ call' = [op |-> "RemoveHeader", name |-> name]
    /\ pre' = headers
    /\ generated' = NotGenerated
    /\ previous' = NoPrevious
    /\ UNCHANGED lineLengthLimit

-----------------------------------------------------------------------------
(* Bounds *)

\* The callers do not grow the collection beyond MaxHeaders entries.
MaxHeaders == 3

\* A raw message handed to the parser has at most MaxLines terminated lines.
MaxLines == 3

Fits(hdrs) == Len(hdrs) <= MaxHeaders

-----------------------------------------------------------------------------
(* Spec: a caller that edits the collection header by header and parses     *)
(* small messages into it.                                                 *)

\* "a", "A", "b"
Names == {<<97>>, <<65>>, <<98>>}

\* "x", "y"
Values == {<<120>>, <<121>>}

\* "a: x" CRLF CRLF;  "A:y" CRLF "b: x" CRLF CRLF;  "b: y" CRLF "a"
Messages ==
    { <<97, 58, 32, 120>> \o CRLF \o CRLF,
      <<65, 58, 121>> \o CRLF \o <<98, 58, 32, 120>> \o CRLF \o CRLF,
      <<98, 58, 32, 121>> \o CRLF \o <<97>> }

Next ==
    \/ \E m \in Messages : ParseRawMessage(m) /\ Fits(headers')
    \/ \E n \in Names, v \in Values : SetHeader(n, v) /\ Fits(headers')
    \/ \E n \in Names, v \in Values : AddHeader(n, v) /\ Fits(headers')
    \/ \E n \in Names : RemoveHeader(n)

Spec == Init /\ [][Next]_vars

-----------------------------------------------------------------------------
(* ParseSpec: a caller that configures a limit, parses one message (after   *)
(* at most one earlier message) and generates the headers back.            *)

\* The texts of the lines a raw message is made of:
\*   ""  "a:b"  "a: b"  "A:"  " b"  " bb"  <tab>"b c"  "ab"  "a b:c"  ":b"
LineTexts ==
    { <<>>,
      <<97, 58, 98>>,
      <<97, 58, 32, 98>>,
      <<65, 58>>,
      <<32, 98>>,
      <<32, 98, 98>>,
      <<9, 98, 32, 99>>,
      <<97, 98>>,
      <<97, 32, 98, 58, 99>>,
      <<58, 98>> }

\* What follows the last terminated line: nothing, or the unterminated "b:c".
Tails == {<<>>, <<98, 58, 99>>}

RECURSIVE JoinLines(_)
JoinLines(lines) ==
    IF lines = <<>> THEN <<>> ELSE Head(lines) \o CRLF \o JoinLines(Tail(lines))

RawMessages ==
    {JoinLines(ls) \o t :
        ls \in UNION {[1..n -> LineTexts] : n \in 0..MaxLines}, t \in Tails}

\* "Host: example.com" CRLF CRLF
ScenarioMessages ==
    { <<72, 111, 115, 116, 58, 32, 101, 120, 97, 109, 112, 108, 101, 46, 99, 111, 109>>
      \o CRLF \o CRLF }

\* The earlier message: "b: y" CRLF CRLF
EarlierMessages == {<<98, 58, 32, 121>> \o CRLF \o CRLF}

ParseLimits == {0, 5, 6}

\* A second message is parsed only after an earlier one, parsed on a fresh instance.
MayParse ==
    call.op = "ParseRawMessage" => (pre = <<>> /\ call.rawMessage \in EarlierMessages)

ParseNext ==
    \/ last = "MessageHeaders" /\ \E l \in ParseLimits : SetLineLimit(l)
    \/ call.op # "ParseRawMessage" /\ \E m \in EarlierMessages : ParseRawMessage(m)
    \/ MayParse /\ \E m \in RawMessages \cup ScenarioMessages : ParseRawMessage(m)
    \/ call.op = "ParseRawMessage" /\ last # "GenerateRawHeaders" /\ GenerateRawHeaders

ParseSpec == Init /\ [][ParseNext]_vars

-----------------------------------------------------------------------------
(* FoldSpec: a caller that configures a limit, adds headers and generates,  *)
(* once or twice in a row.                                                 *)

\* "X"
FoldNames == {<<88>>}

\* "Hello, World!"
HelloWorld ==
    <<72, 101, 108, 108, 111, 44, 32, 87, 111, 114, 108, 100, 33>>

\* "This is even long er!"
ThisIsEvenLongEr ==
    <<84, 104, 105, 115, 32, 105, 115, 32, 101, 118, 101, 110, 32, 108,
      111, 110, 103, 32, 101, 114, 33>>

\* "a"  "aaa"  "a a"  "a aa aa"  "a"<tab>"a"  "aa a a"  "a  b b"  "a bbbb c"
\* "a bbbbbb"  and the two above
FoldValues ==
    { HelloWorld,
      ThisIsEvenLongEr,
      <<97, 32, 32, 98, 32, 98>>,
      <<97>>,
      <<97, 97, 97>>,
      <<97, 32, 97>>,
      <<97, 32, 97, 97, 32, 97, 97>>,
      <<97, 9, 97>>,
      <<97, 97, 32, 97, 32, 97>>,
      <<97, 32, 98, 98, 98, 98, 32, 99>>,
      <<97, 32, 98, 98, 98, 98, 98, 98>> }

FoldLimits == {0, 1, 2, 6, 7, 12}

FoldNext ==
    \/ last = "MessageHeaders" /\ \E l \in FoldLimits : SetLineLimit(l)
    \/ \E n \in FoldNames, v \in FoldValues : AddHeader(n, v) /\ Fits(headers')
    \/ /\ last = "GenerateRawHeaders" =>
              (generated.returned /\ ~previous.generated.returned)
       /\ GenerateRawHeaders

FoldSpec == Init /\ [][FoldNext]_vars

-----------------------------------------------------------------------------
(* Vocabulary of the properties: text seen from outside the implementation *)

IsWsp(c) == c = 32 \/ c = 9

StartsWithWsp(line) == line # <<>> /\ IsWsp(line[1])

\* The CRLF-terminated lines of a text, in order, without their terminators;
\* an unterminated rest is not a line.
RECURSIVE PhysicalLinesFrom(_, _)
PhysicalLinesFrom(text, from) ==
    LET p == Find(text, CRLF, from)
    IN IF p = npos THEN <<>>
       ELSE <<Substr(text, from, p - from)>> \o PhysicalLinesFrom(text, p + 2)

PhysicalLines(text) == PhysicalLinesFrom(text, 0)

\* Index of the first empty line, or one past the last line when there is none.
FirstEmpty(lines) ==
    Min({j \in 1..Len(lines) : lines[j] = <<>>} \cup {Len(lines) + 1})

\* The lines of the header block: up to and including the first empty line.
HeaderBlockLines(text) ==
    LET lines == PhysicalLines(text)
        e == FirstEmpty(lines)
    IN SubSeq(lines, 1, IF e > Len(lines) THEN Len(lines) ELSE e)

\* Zero or more terminated lines, then one empty line, and nothing after it.
IsHeaderBlock(text) ==
    LET lines == PhysicalLines(text)
    IN /\ lines # <<>>
       /\ FirstEmpty(lines) = Len(lines)
       /\ text = JoinLines(lines)

\* name ':' ' ' value, the value with no space or tab at either end, and the
\* line not starting with a space or tab.
IsCanonicalLine(line) ==
    /\ ~StartsWithWsp(line)
    /\ \E p \in 1..Len(line) :
          /\ line[p] = 58
          /\ \A q \in 1..(p - 1) : line[q] # 58
          /\ p < Len(line)
          /\ line[p + 1] = 32
          /\ LET v == SubSeq(line, p + 2, Len(line))
             IN v = <<>> \/ (~IsWsp(v[1]) /\ ~IsWsp(v[Len(v)]))

\* name ": " value CRLF for every entry in order, then the final CRLF.
RECURSIVE CanonicalBlock(_)
CanonicalBlock(hdrs) ==
    IF hdrs = <<>> THEN <<13, 10>>
    ELSE Head(hdrs).name \o <<58, 32>> \o Head(hdrs).value \o <<13, 10>>
         \o CanonicalBlock(Tail(hdrs))

AsciiLower(c) == IF c >= 65 /\ c <= 90 THEN c + 32 ELSE c

AsciiUpper(c) == IF c >= 97 /\ c <= 122 THEN c - 32 ELSE c

LowerCase(n) == [i \in 1..Len(n) |-> AsciiLower(n[i])]

UpperCase(n) == [i \in 1..Len(n) |-> AsciiUpper(n[i])]

SameName(n, m) ==
    Len(n) = Len(m) /\ \A i \in 1..Len(n) : AsciiLower(n[i]) = AsciiLower(m[i])

\* The indices of the entries of hdrs named n.
Matches(hdrs, n) == {i \in 1..Len(hdrs) : SameName(hdrs[i].name, n)}

\* The entries of hdrs not named n, in order.
RECURSIVE Others(_, _)
Others(hdrs, n) ==
    IF hdrs = <<>> THEN <<>>
    ELSE (IF SameName(Head(hdrs).name, n) THEN <<>> ELSE <<Head(hdrs)>>)
         \o Others(Tail(hdrs), n)

\* The values of the entries of hdrs named n, in order.
RECURSIVE ValuesOf(_, _)
ValuesOf(hdrs, n) ==
    IF hdrs = <<>> THEN <<>>
    ELSE (IF SameName(Head(hdrs).name, n) THEN <<Head(hdrs).value>> ELSE <<>>)
         \o ValuesOf(Tail(hdrs), n)

RECURSIVE JoinComma(_)
JoinComma(vals) ==
    IF vals = <<>> THEN <<>>
    ELSE IF Len(vals) = 1 THEN Head(vals)
    ELSE Head(vals) \o <<44>> \o JoinComma(Tail(vals))

\* The names looked up: "a" "A" "b" "B" "ab" "Ab" "aB" "" "a-" "c"
QueryNames ==
    { <<97>>, <<65>>, <<98>>, <<66>>, <<97, 98>>, <<65, 98>>, <<97, 66>>,
      <<>>, <<97, 45>>, <<99>> }

\* GenerateRawHeaders has just returned what the last successful parse, made
\* on a fresh instance under the present limit, was given.
GeneratedAfterFreshParse ==
    /\ last = "GenerateRawHeaders"
    /\ call.op = "ParseRawMessage"
    /\ pre = <<>>
    /\ call.ok

NoFoldingNeeded ==
    \/ lineLengthLimit = 0
    \/ \A i \in 1..Len(headers) :
          Len(headers[i].name) + 2 + Len(headers[i].value) + 2 <= lineLengthLimit

-----------------------------------------------------------------------------
(* C1 *)

\* C1 as stated: every header block that a fresh instance accepts and in which
\* no header needs folding is generated back byte for byte.
C1_RoundTripAnyAcceptedBlock ==
    (/\ GeneratedAfterFreshParse
     /\ IsHeaderBlock(call.rawMessage)
     /\ NoFoldingNeeded)
    => generated = [returned |-> TRUE, text |-> call.rawMessage]

\* C1 amended: the round trip is exact for accepted header blocks whose header
\* lines are all in the canonical form name ':' ' ' value (value without space
\* or tab at either end, no line starting with a space or tab).
C1_RoundTripCanonicalBlock ==
    (/\ GeneratedAfterFreshParse
     /\ IsHeaderBlock(call.rawMessage)
     /\ NoFoldingNeeded
     /\ \A j \in 1..(Len(PhysicalLines(call.rawMessage)) - 1) :
           IsCanonicalLine(PhysicalLines(call.rawMessage)[j]))
    => generated = [returned |-> TRUE, text |-> call.rawMessage]

C1_Witness ==
    /\ GeneratedAfterFreshParse
    /\ IsHeaderBlock(call.rawMessage)
    /\ lineLengthLimit > 0
    /\ NoFoldingNeeded
    /\ Len(headers) >= 2
    /\ \A j \in 1..(Len(PhysicalLines(call.rawMessage)) - 1) :
          IsCanonicalLine(PhysicalLines(call.rawMessage)[j])
    /\ generated.text = call.rawMessage

-----------------------------------------------------------------------------
(* C2 *)

\* C2: with a limit L > 0, every line GenerateRawHeaders emits for a header,
\* counted with its continuation space and its CRLF, is at most L long.
C2_FoldedLinesWithinLimit ==
    (/\ last = "GenerateRawHeaders"
     /\ lineLengthLimit > 0
     /\ generated.returned)
    => LET lines == PhysicalLines(generated.text)
       IN \A j \in 1..(Len(lines) - 1) : Len(lines[j]) + 2 <= lineLengthLimit

-----------------------------------------------------------------------------
(* C3 *)

\* C3: SetHeader(n, v) on a collection with more than one entry named n leaves
\* exactly one entry named n, with value v, at the place of the first original
\* match, and the entries with other names as they were, in their order.
C3_SetHeaderCollapses ==
    (call.op = "SetHeader" /\ Cardinality(Matches(pre, call.name)) > 1)
    => /\ Matches(headers, call.name) = {Min(Matches(pre, call.name))}
       /\ headers[Min(Matches(pre, call.name))].value = call.value
       /\ Others(headers, call.name) = Others(pre, call.name)

C3_Witness ==
    /\ call.op = "SetHeader"
    /\ Cardinality(Matches(pre, call.name)) > 1
    /\ \E i \in 1..Len(pre) :
          /\ i \notin Matches(pre, call.name)
          /\ Min(Matches(pre, call.name)) < i
          /\ \E k \in Matches(pre, call.name) : i < k
    /\ pre[Min(Matches(pre, call.name))].value # call.value
    /\ Len(headers) = 2

-----------------------------------------------------------------------------
(* C4 *)

\* C4: in every state and for every name, GetHeaderValue is the values of
\* GetHeaderMultiValue joined by single commas, GetHeaderMultiValue is the
\* values of the matching entries in insertion order, and both are empty when
\* no entry matches.
C4_ValueIsJoinOfMultiValue ==
    \A n \in QueryNames :
        /\ GetHeaderMultiValue(headers, n) = ValuesOf(headers, n)
        /\ GetHeaderValue(headers, n) = JoinComma(GetHeaderMultiValue(headers, n))
        /\ Matches(headers, n) = {}
              => /\ GetHeaderMultiValue(headers, n) = <<>>
                 /\ GetHeaderValue(headers, n) = <<>>

C4_Witness ==
    /\ GetHeaderMultiValue(headers, <<65>>) = << <<121>>, <<120>> >>
    /\ GetHeaderValue(headers, <<65>>) = <<121, 44, 120>>
    /\ Len(headers) = 3
    /\ GetHeaderValue(headers, <<99>>) = <<>>

-----------------------------------------------------------------------------
(* C5 *)

\* C5: HasHeader gives the same answer for a name, its lower-case and its
\* upper-case form, and two names are equal exactly when they have the same
\* length and the same characters after ASCII lower-casing.
C5_NamesAreCaseInsensitive ==
    /\ \A n \in QueryNames :
          /\ HasHeader(headers, n) = HasHeader(headers, LowerCase(n))
          /\ HasHeader(headers, n) = HasHeader(headers, UpperCase(n))
          /\ HasHeader(headers, n) = (Matches(headers, n) # {})
    /\ \A n \in QueryNames, m \in QueryNames : HeaderNameEq(n, m) = SameName(n, m)

C5_Witness ==
    /\ HasHeader(headers, <<65>>)
    /\ \A i \in 1..Len(headers) : headers[i].name # <<65>>
    /\ ~HasHeader(headers, <<66>>)
    /\ Len(headers) = 2

-----------------------------------------------------------------------------
(* C6 *)

\* What a call of ParseRawMessage with this limit and input leaves in an
\* instance that held nothing.
ParsedAlone(limit, rawMessage) == ParseRawMessageOn(<<>>, limit, rawMessage).headers

\* C6: after a successful ParseRawMessage the collection is what it held
\* before the call, unchanged and in order, followed by the headers parsed
\* from the input of this call.
C6_ParseAppends ==
    (call.op = "ParseRawMessage" /\ call.ok)
    => headers = pre \o ParsedAlone(call.limit, call.rawMessage)

C6_Witness ==
    /\ call.op = "ParseRawMessage"
    /\ call.ok
    /\ pre # <<>>
    /\ Len(headers) = Len(pre) + 2
    /\ SubSeq(headers, 1, Len(pre)) = pre

-----------------------------------------------------------------------------
(* C7 *)

\* C7: after a failed ParseRawMessage the collection is what it held before
\* the call followed by exactly the headers of the input that lie wholly
\* before the line at which the parse stopped; the header of that line is not
\* added.
C7_FailedParseKeepsEarlierHeaders ==
    (call.op = "ParseRawMessage" /\ ~call.ok)
    => /\ call.bodyOffset = npos
       /\ headers = pre \o ParsedAlone(call.limit,
                                       Substr(call.rawMessage, 0, call.lineStart) \o <<13, 10>>)
       /\ LET before == PhysicalLines(Substr(call.rawMessage, 0, call.lineStart))
          IN Len(headers) - Len(pre)
                = Cardinality({j \in 1..Len(before) : ~StartsWithWsp(before[j])})

C7_Witness ==
    /\ call.op = "ParseRawMessage"
    /\ ~call.ok
    /\ pre # <<>>
    /\ Len(headers) = Len(pre) + 1
    /\ Find(call.rawMessage, <<58>>, call.lineStart) # npos
    /\ call.lineStart > 0

-----------------------------------------------------------------------------
(* C8 *)

\* The header lines of a text: the lines of its header block that do not start
\* with a space or tab (the terminating empty line among them).
HeaderLineIndices(text) ==
    LET block == HeaderBlockLines(text)
    IN {j \in 1..Len(block) : ~StartsWithWsp(block[j])}

OverLongHeaderLines(text, limit) ==
    LET block == HeaderBlockLines(text)
    IN {j \in 1..Len(block) : ~StartsWithWsp(block[j]) /\ Len(block[j]) + 2 > limit}

\* C8: with a limit L > 0, ParseRawMessage accepts exactly the inputs it
\* accepts without a limit and in which every header line is, with its CRLF,
\* at most L long (a line of exactly L is accepted); at the first header line
\* of L + 1 or more it returns false with only the headers before that line
\* added.
C8_HeaderLineLimit ==
    (call.op = "ParseRawMessage" /\ call.limit > 0)
    => LET unlimited == ParseRawMessageOn(pre, 0, call.rawMessage)
           over == OverLongHeaderLines(call.rawMessage, call.limit)
       IN /\ call.ok = (unlimited.ok /\ over = {})
          /\ (unlimited.ok /\ over # {})
                => /\ call.lineStart
                        = Len(JoinLines(SubSeq(HeaderBlockLines(call.rawMessage), 1, Min(over) - 1)))
                   /\ Len(headers) - Len(pre)
                        = Cardinality({j \in HeaderLineIndices(call.rawMessage) : j < Min(over)})

C8_Witness ==
    /\ call.op = "ParseRawMessage"
    /\ call.limit > 0
    /\ call.ok
    /\ \E j \in HeaderLineIndices(call.rawMessage) :
          Len(HeaderBlockLines(call.rawMessage)[j]) + 2 = call.limit
    /\ Len(headers) >= Len(pre) + 2
    /\ ~ParseRawMessageOn(pre, call.limit - 1, call.rawMessage).ok

-----------------------------------------------------------------------------
(* C9 *)

\* C9: with a limit L > 0, ParseRawMessage returns true only if every line of
\* the header block it consumed, continuation lines included, is with its CRLF
\* at most L long.
C9_EveryConsumedLineWithinLimit ==
    (call.op = "ParseRawMessage" /\ call.limit > 0 /\ call.ok)
    => \A j \in 1..Len(HeaderBlockLines(call.rawMessage)) :
          Len(HeaderBlockLines(call.rawMessage)[j]) + 2 <= call.limit

-----------------------------------------------------------------------------
(* C10 *)

\* C10: a new instance has the limit 0; with the limit 0 ParseRawMessage does
\* what it does under a limit no line of the input can reach, and
\* GenerateRawHeaders writes every header on one line of its own,
\* name ": " value CRLF, whatever its length.
C10_ZeroMeansUnlimited ==
    /\ last = "MessageHeaders" => lineLengthLimit = 0
    /\ (call.op = "ParseRawMessage" /\ call.limit = 0)
          => LET roomy == ParseRawMessageOn(pre, Len(call.rawMessage) + 2, call.rawMessage)
             IN /\ call.ok = roomy.ok
                /\ headers = roomy.headers
                /\ call.bodyOffset = roomy.bodyOffset
    /\ (last = "GenerateRawHeaders" /\ lineLengthLimit = 0)
          => /\ generated = [returned |-> TRUE, text |-> CanonicalBlock(headers)]
             /\ Len(PhysicalLines(generated.text)) = Len(headers) + 1

C10_Witness ==
    /\ last = "GenerateRawHeaders"
    /\ lineLengthLimit = 0
    /\ call.op = "ParseRawMessage"
    /\ call.ok
    /\ \E l \in ParseLimits : ~ParseRawMessageOn(pre, l, call.rawMessage).ok
    /\ \E i \in 1..Len(headers) :
          \A l \in ParseLimits : Len(headers[i].name) + Len(headers[i].value) + 4 > l
    /\ generated.returned

-----------------------------------------------------------------------------
(* C19 *)

\* C19: RemoveHeader(n) leaves exactly the entries whose names differ from n
\* (compared without case), in their order: HasHeader(n) is then false, the
\* collection is unchanged when nothing matched, and removing n again changes
\* nothing.
C19_RemoveHeaderRemovesAllMatches ==
    call.op = "RemoveHeader"
    => /\ ~HasHeader(headers, call.name)
       /\ headers = Others(pre, call.name)
       /\ Matches(pre, call.name) = {} => headers = pre
       /\ RemoveHeaderFrom(headers, call.name, 1) = headers

C19_Witness ==
    /\ call.op = "RemoveHeader"
    /\ Cardinality(Matches(pre, call.name)) = 2
    /\ \E i \in Matches(pre, call.name), k \in Matches(pre, call.name) :
          /\ pre[i].name # pre[k].name
          /\ \E j \in 1..Len(pre) : i < j /\ j < k /\ j \notin Matches(pre, call.name)
    /\ Len(headers) = 1

-----------------------------------------------------------------------------
(* C20 *)

\* C20: AddHeader(n, v) leaves the collection it found followed by the one new
\* entry (n, v), whether or not entries named n were held; SetHeader(n, v)
\* does the same when no entry named n is held.
C20_AddHeaderAppends ==
    /\ call.op = "AddHeader"
          => headers = Append(pre, [name |-> call.name, value |-> call.value])
    /\ (call.op = "SetHeader" /\ Matches(pre, call.name) = {})
          => headers = Append(pre, [name |-> call.name, value |-> call.value])

C20_Witness ==
    /\ call.op = "AddHeader"
    /\ Cardinality(Matches(pre, call.name)) = 2
    /\ \A i \in Matches(pre, call.name) : pre[i].name # call.name
    /\ Len(headers) = 3
    /\ headers[3] = [name |-> call.name, value |-> call.value]

-----------------------------------------------------------------------------
(* C11 *)

IsPrintable(c) == c >= 33 /\ c <= 126

\* The text of a line before its first ':' (the whole line when it has none).
NameText(line) ==
    SubSeq(line, 1, Min({p \in 1..Len(line) : line[p] = 58} \cup {Len(line) + 1}) - 1)

\* The names tried one by one, each as the line  name ":v":
\*   ""  "!"  "~"  "a-b"  " "  <tab>  "a b"  <1>  <127>  <200>  "a"<13>
ProbeNames ==
    { <<>>, <<33>>, <<126>>, <<97, 45, 98>>, <<32>>, <<9>>, <<97, 32, 98>>,
      <<1>>, <<127>>, <<200>>, <<97, 13>> }

\* C11: every name stored by ParseRawMessage consists of characters 33..126
\* without ':'; an accepted input has no header line whose text before the
\* first ':' holds a character outside 33..126; on an empty instance without
\* a limit a line  name ":v"  is accepted exactly when the name is of
\* characters 33..126, the empty name included.
C11_StoredNamesArePrintable ==
    /\ call.op = "ParseRawMessage"
          => /\ \A i \in (Len(pre) + 1)..Len(headers) :
                   \A k \in 1..Len(headers[i].name) :
                       IsPrintable(headers[i].name[k]) /\ headers[i].name[k] # 58
             /\ call.ok
                   => LET block == HeaderBlockLines(call.rawMessage)
                      IN /\ ~StartsWithWsp(block[1])
                         /\ \A j \in 1..Len(block) :
                               \/ StartsWithWsp(block[j])
                               \/ \A k \in 1..Len(NameText(block[j])) :
                                     IsPrintable(NameText(block[j])[k])
    /\ (headers = <<>> /\ lineLengthLimit = 0)
          => \A n \in ProbeNames :
                LET r == ParseRawMessageOn(headers, lineLengthLimit,
                                           n \o <<58, 118, 13, 10, 13, 10>>)
                IN IF \A k \in 1..Len(n) : IsPrintable(n[k])
                   THEN r.ok /\ r.headers = <<[name |-> n, value |-> <<118>>]>>
                   ELSE ~r.ok /\ r.headers = <<>>

C11_Witness ==
    /\ call.op = "ParseRawMessage"
    /\ call.ok
    /\ Len(headers) = Len(pre) + 2
    /\ headers[Len(pre) + 1].name = <<>>
    /\ headers[Len(pre) + 2].name # <<>>
    /\ HeaderBlockLines(call.rawMessage)[1][1] = 58

-----------------------------------------------------------------------------
(* C12 *)

HasColon(line) == \E p \in 1..Len(line) : line[p] = 58

\* C12: an accepted input has a ':' in every non-empty header line, and an
\* input whose first line is non-empty and has no ':' is rejected with nothing
\* added, whatever follows that line's terminator.
C12_HeaderLineWithoutColonFails ==
    call.op = "ParseRawMessage"
    => LET block == HeaderBlockLines(call.rawMessage)
       IN /\ call.ok
                => \A j \in 1..Len(block) :
                      StartsWithWsp(block[j]) \/ block[j] = <<>> \/ HasColon(block[j])
          /\ (block # <<>> /\ block[1] # <<>> /\ ~HasColon(block[1]))
                => ~call.ok /\ headers = pre

C12_Witness ==
    /\ call.op = "ParseRawMessage"
    /\ ~call.ok
    /\ pre # <<>>
    /\ headers = pre
    /\ Len(PhysicalLines(call.rawMessage)) = 3
    /\ PhysicalLines(call.rawMessage)[1] = <<97, 98>>
    /\ HasColon(PhysicalLines(call.rawMessage)[2])
    /\ PhysicalLines(call.rawMessage)[3] = <<>>
    /\ Len(call.rawMessage) > call.lineStart + 12

-----------------------------------------------------------------------------
(* C13 *)

RECURSIVE DropLeadingWsp(_)
DropLeadingWsp(text) ==
    IF text # <<>> /\ IsWsp(Head(text)) THEN DropLeadingWsp(Tail(text)) ELSE text

RECURSIVE DropTrailingWsp(_)
DropTrailingWsp(text) ==
    IF text # <<>> /\ IsWsp(text[Len(text)])
    THEN DropTrailingWsp(SubSeq(text, 1, Len(text) - 1))
    ELSE text

Trimmed(text) == DropTrailingWsp(DropLeadingWsp(text))

\* A line that can open a header: it does not start with a space or tab and
\* has a ':' after a name of characters 33..126.
IsOpeningLine(line) ==
    /\ ~StartsWithWsp(line)
    /\ HasColon(line)
    /\ \A k \in 1..Len(NameText(line)) : IsPrintable(NameText(line)[k])

\* A block of opening lines, each followed by any number of non-empty lines
\* that start with a space or tab, and closed by the one empty line.
IsFoldedBlock(text) ==
    /\ IsHeaderBlock(text)
    /\ Len(PhysicalLines(text)) >= 2
    /\ IsOpeningLine(PhysicalLines(text)[1])
    /\ \A j \in 2..(Len(PhysicalLines(text)) - 1) :
          IsOpeningLine(PhysicalLines(text)[j]) \/ StartsWithWsp(PhysicalLines(text)[j])

\* The names and untrimmed values of the lines from j on, every line that
\* starts with a space or tab joined to the header before it by one space.
RECURSIVE UnfoldedFrom(_, _, _)
UnfoldedFrom(lines, j, hdrs) ==
    IF j > Len(lines) THEN hdrs
    ELSE IF StartsWithWsp(lines[j])
    THEN UnfoldedFrom(lines, j + 1,
            [hdrs EXCEPT ![Len(hdrs)].value = @ \o <<32>> \o DropLeadingWsp(lines[j])])
    ELSE UnfoldedFrom(lines, j + 1,
            Append(hdrs, [name |-> NameText(lines[j]),
                          value |-> SubSeq(lines[j], Len(NameText(lines[j])) + 2,
                                           Len(lines[j]))]))

UnfoldedHeaders(text) ==
    LET lines == PhysicalLines(text)
        raw == UnfoldedFrom(SubSeq(lines, 1, Len(lines) - 1), 1, <<>>)
    IN [i \in 1..Len(raw) |-> [name |-> raw[i].name, value |-> Trimmed(raw[i].value)]]

\* C13: without a limit, every non-empty line that follows a header line and
\* starts with a space or tab, whatever its length, is unfolded into that
\* header: the value stored is the first line's value, then one space and the
\* line without its leading spaces and tabs for each such line, the whole
\* stripped of spaces and tabs at both ends.
C13_EveryWspLineIsUnfolded ==
    (/\ call.op = "ParseRawMessage"
     /\ call.limit = 0
     /\ IsFoldedBlock(call.rawMessage))
    => /\ call.ok
       /\ headers = pre \o UnfoldedHeaders(call.rawMessage)

-----------------------------------------------------------------------------
(* C14 *)

\* C14: an accepted input has an empty line among its CRLF-terminated lines:
\* a header line followed by the end of the input or by an unterminated rest
\* is never accepted, however many headers came before it.
C14_AcceptedOnlyAfterEmptyLine ==
    (call.op = "ParseRawMessage" /\ call.ok)
    => FirstEmpty(PhysicalLines(call.rawMessage)) <= Len(PhysicalLines(call.rawMessage))

C14_Witness ==
    /\ call.op = "ParseRawMessage"
    /\ ~call.ok
    /\ Len(PhysicalLines(call.rawMessage)) = 3
    /\ \A j \in 1..3 : IsOpeningLine(PhysicalLines(call.rawMessage)[j])
    /\ Len(call.rawMessage) > Len(JoinLines(PhysicalLines(call.rawMessage)))
    /\ Len(headers) = Len(pre) + 2
    /\ call.limit = 0

-----------------------------------------------------------------------------
(* C15 *)

HasCrlf(text) == \E p \in 1..(Len(text) - 1) : text[p] = 13 /\ text[p + 1] = 10

\* C15: an input without any CRLF is rejected and adds nothing; the input
\* that is CRLF alone is, without a limit, accepted and adds nothing.
C15_InputWithoutLineFails ==
    call.op = "ParseRawMessage"
    => /\ ~HasCrlf(call.rawMessage) => (~call.ok /\ headers = pre)
       /\ (call.rawMessage = <<13, 10>> /\ call.limit = 0)
             => (call.ok /\ headers = pre /\ call.bodyOffset = 2)

C15_Witness ==
    /\ call.op = "ParseRawMessage"
    /\ call.rawMessage = <<98, 58, 99>>
    /\ ~call.ok
    /\ pre # <<>>
    /\ headers = pre

-----------------------------------------------------------------------------
(* C16 *)

\* What may stand after the header block:
\*   nothing,  " x:" CRLF,  "a:b" CRLF CRLF "c"
Bodies ==
    { <<>>, <<32, 120, 58, 13, 10>>, <<97, 58, 98, 13, 10, 13, 10, 99>> }

\* C16: on success bodyOffset is the index just after the first empty line of
\* the input (between 2 and the length of the input, the two characters
\* before it being CR and LF), and the parse gives the same headers and the
\* same bodyOffset whatever stands at and after that index.
C16_BodyOffsetAfterEmptyLine ==
    (call.op = "ParseRawMessage" /\ call.ok)
    => /\ call.bodyOffset >= 2
       /\ call.bodyOffset <= Len(call.rawMessage)
       /\ call.rawMessage[call.bodyOffset - 1] = 13
       /\ call.rawMessage[call.bodyOffset] = 10
       /\ call.bodyOffset = Len(JoinLines(HeaderBlockLines(call.rawMessage)))
       /\ \A body \in Bodies :
             LET r == ParseRawMessageOn(pre, call.limit,
                                        SubSeq(call.rawMessage, 1, call.bodyOffset) \o body)
             IN r.ok /\ r.headers = headers /\ r.bodyOffset = call.bodyOffset

C16_Witness ==
    /\ call.op = "ParseRawMessage"
    /\ call.ok
    /\ Len(headers) = Len(pre) + 1
    /\ call.bodyOffset < Len(call.rawMessage)
    /\ HasColon(SubSeq(call.rawMessage, call.bodyOffset + 1, Len(call.rawMessage)))
    /\ HasCrlf(SubSeq(call.rawMessage, call.bodyOffset + 1, Len(call.rawMessage)))

-----------------------------------------------------------------------------
(* C17 *)

\* "Host: example.com" CRLF CRLF
HostMessage ==
    <<72, 111, 115, 116, 58, 32, 101, 120, 97, 109, 112, 108, 101, 46, 99, 111, 109,
      13, 10, 13, 10>>

\* "Host", "example.com"
HostHeader ==
    [name |-> <<72, 111, 115, 116>>,
     value |-> <<101, 120, 97, 109, 112, 108, 101, 46, 99, 111, 109>>]

ParsedHostMessage ==
    /\ call.op = "ParseRawMessage"
    /\ call.rawMessage = HostMessage
    /\ pre = <<>>
    /\ call.limit = 0

\* C17 as stated: parsing "Host: example.com" CRLF CRLF on a fresh instance
\* succeeds, stores the one header Host = example.com and reports the body
\* offset 20.
C17_HostScenarioOffset20 ==
    ParsedHostMessage
    => call.ok /\ headers = <<HostHeader>> /\ call.bodyOffset = 20

\* C17 amended: the same parse succeeds, stores the one header
\* Host = example.com and reports the body offset 21, the length of the input.
C17_HostScenarioOffset21 ==
    ParsedHostMessage
    => call.ok /\ headers = <<HostHeader>> /\ call.bodyOffset = 21
                /\ Len(call.rawMessage) = 21

C17_Witness ==
    /\ ParsedHostMessage
    /\ call.ok
    /\ last = "GenerateRawHeaders"
    /\ generated.text = HostMessage

-----------------------------------------------------------------------------
(* C18 *)

\* Offset of the first space or tab of a text (its length when it has none).
FirstWspOffset(s) == Min({i \in 0..(Len(s) - 1) : IsWsp(s[i + 1])} \cup {Len(s)})

\* The offsets at which the rest of s from start may be broken under limit L:
\* a space or tab after start, at most L - 2 after it, other than the first
\* space or tab of s.
BreakCandidates(L, s, start) ==
    {i \in (start + 1)..(start + L - 2) :
        i < Len(s) /\ IsWsp(s[i + 1]) /\ i # FirstWspOffset(s)}

Max(S) == CHOOSE x \in S : \A y \in S : x >= y

\* The lines of s (a composed header line with its CRLF) from start on, broken
\* by the rule; defined is FALSE when a rest does not fit and has no candidate.
RECURSIVE FoldedByRule(_, _, _)
FoldedByRule(L, s, start) ==
    LET lead == IF start = 0 THEN <<>> ELSE <<32>>
    IN IF Len(s) - start <= L
       THEN [defined |-> TRUE, text |-> lead \o SubSeq(s, start + 1, Len(s))]
       ELSE IF BreakCandidates(L, s, start) = {}
       THEN [defined |-> FALSE, text |-> <<>>]
       ELSE LET b == Max(BreakCandidates(L, s, start))
                rest == FoldedByRule(L, s, b + 1)
            IN [defined |-> rest.defined,
                text |-> lead \o SubSeq(s, start + 1, b) \o <<13, 10>> \o rest.text]

HeaderLineText(h) == h.name \o <<58, 32>> \o h.value \o <<13, 10>>

RECURSIVE AllFoldedByRule(_, _)
AllFoldedByRule(L, hdrs) ==
    IF hdrs = <<>> THEN [defined |-> TRUE, text |-> <<13, 10>>]
    ELSE LET one == FoldedByRule(L, HeaderLineText(Head(hdrs)), 0)
             rest == AllFoldedByRule(L, Tail(hdrs))
         IN [defined |-> one.defined /\ rest.defined, text |-> one.text \o rest.text]

\* "X: Hello," CRLF " World!" CRLF CRLF
HelloWorldFolded ==
    <<88, 58, 32, 72, 101, 108, 108, 111, 44, 13, 10, 32, 87, 111, 114,
      108, 100, 33, 13, 10, 13, 10>>

\* "X: This is" CRLF " even long" CRLF " er!" CRLF CRLF
ThisIsEvenLongErFolded ==
    <<88, 58, 32, 84, 104, 105, 115, 32, 105, 115, 13, 10, 32, 101, 118,
      101, 110, 32, 108, 111, 110, 103, 13, 10, 32, 101, 114, 33, 13, 10,
      13, 10>>

\* C18: with a limit L > 0, when every header can be folded, the output is
\* every header line broken, wherever its rest does not fit in L, at the
\* rightmost space or tab that lies after the start of the rest and at most
\* L - 2 after it and is not the first space or tab of the header line; the
\* character at the break is dropped, the next line starts with one space,
\* every line ends with CRLF.  With L = 12, X: Hello, World! gives
\* "X: Hello," and " World!", and X: This is even long er! gives "X: This is",
\* " even long" and " er!".
C18_FoldBreakPointRule ==
    (last = "GenerateRawHeaders" /\ lineLengthLimit > 0)
    => /\ AllFoldedByRule(lineLengthLimit, headers).defined
             => generated = [returned |-> TRUE,
                             text |-> AllFoldedByRule(lineLengthLimit, headers).text]
       /\ (lineLengthLimit = 12 /\ headers = <<[name |-> <<88>>, value |-> HelloWorld]>>)
             => generated = [returned |-> TRUE, text |-> HelloWorldFolded]
       /\ (lineLengthLimit = 12 /\ headers = <<[name |-> <<88>>, value |-> ThisIsEvenLongEr]>>)
             => generated = [returned |-> TRUE, text |-> ThisIsEvenLongErFolded]

C18_Witness ==
    /\ last = "GenerateRawHeaders"
    /\ lineLengthLimit = 12
    /\ headers = <<[name |-> <<88>>, value |-> ThisIsEvenLongEr]>>
    /\ generated.text = ThisIsEvenLongErFolded
    /\ Len(PhysicalLines(generated.text)) = 4

-----------------------------------------------------------------------------
(* ValuesSpec: a caller that adds single headers and sets or adds lists of  *)
(* values under one name.                                                  *)

\* The single headers added: "a: x", "A: y", "b: x"
SingleHeaders ==
    { [name |-> <<97>>, value |-> <<120>>],
      [name |-> <<65>>, value |-> <<121>>],
      [name |-> <<98>>, value |-> <<120>>] }

\* The names lists are set or added under: "a", "A"
ValueNames == {<<97>>, <<65>>}

\* The lists handed over: none, "x", "x" "y"
ValueLists == { <<>>, << <<120>> >>, << <<120>>, <<121>> >> }

ValuesNext ==
    \/ \E h \in SingleHeaders : AddHeader(h.name, h.value) /\ Fits(headers')
    \/ \E n \in ValueNames, vs \in ValueLists, o \in BOOLEAN :
          SetHeaderValues(n, vs, o) /\ Fits(headers')
    \/ \E n \in ValueNames, vs \in ValueLists, o \in BOOLEAN :
          AddHeaderValues(n, vs, o) /\ Fits(headers')

ValuesSpec == Init /\ [][ValuesNext]_vars

-----------------------------------------------------------------------------
(* C21 *)

-----------------------------------------------------------------------------
(* C22 *)

\* C22: SetHeader(n, values, oneLine) and AddHeader(n, values, oneLine) with
\* an empty list leave the collection as it was, for both settings of oneLine.
C22_EmptyListChangesNothing ==
    (last \in {"SetHeaderValues", "AddHeaderValues"} /\ call.values = <<>>) =>
        headers = pre

\* An empty list added on one line under a name the collection holds.
C22_Witness ==
    /\ last = "AddHeaderValues"
    /\ call.values = <<>>
    /\ call.oneLine
    /\ Len(headers) = 2
    /\ Matches(headers, call.name) # {}
    /\ headers = pre

-----------------------------------------------------------------------------
(* C23 *)

\* The place among the entries kept of the entry that was at index i.
Rank(kept, i) == Cardinality({j \in kept : j <= i})

\* The entries of before at the indices kept are the first entries of after,
\* in the same order and each as it was, but that a SetHeader may have given
\* one its new value; whatever else after holds comes behind them.
KeptInOrder(before, after, kept) ==
    /\ Cardinality(kept) <= Len(after)
    /\ \A i \in kept :
          LET h == after[Rank(kept, i)]
          IN /\ h.name = before[i].name
             /\ \/ h.value = before[i].value
                \/ /\ call.op = "SetHeader"
                   /\ SameName(before[i].name, call.name)
                   /\ h.value = call.value

\* C23: over any sequence of ParseRawMessage, AddHeader, SetHeader and
\* RemoveHeader, the entries that survive an operation keep their relative
\* order and stay in front, new entries come only at the end, and no two
\* entries are merged: every entry held before the call survives as one entry
\* of its own, unless the call is a RemoveHeader of its name or a SetHeader of
\* its name and it is not the first entry of that name.
C23_OrderPreserved ==
    call.op \in {"ParseRawMessage", "AddHeader", "SetHeader", "RemoveHeader"} =>
        \E kept \in SUBSET (1..Len(pre)) :
            /\ \A i \in (1..Len(pre)) \ kept :
                  /\ call.op \in {"SetHeader", "RemoveHeader"}
                  /\ SameName(pre[i].name, call.name)
                  /\ call.op = "SetHeader" => i # Min(Matches(pre, call.name))
            /\ KeptInOrder(pre, headers, kept)
            /\ call.op = "RemoveHeader" => Len(headers) = Cardinality(kept)

\* Three different entries held, the middle one removed: the outer two stay,
\* in their order; reached after a parse, a SetHeader and an AddHeader.
C23_Witness ==
    /\ call.op = "RemoveHeader"
    /\ Len(pre) = 3
    /\ Matches(pre, call.name) = {2}
    /\ pre[1] # pre[3]
    /\ SameName(pre[1].name, pre[3].name)
    /\ headers = <<pre[1], pre[3]>>

-----------------------------------------------------------------------------
(* C24 *)

\* C24: when the limit is 0, or positive with every composed line
\* name ": " value CRLF no longer than it, GenerateRawHeaders returns those
\* lines in insertion order followed by exactly one more CRLF; for an empty
\* collection that is CRLF alone.
C24_UnfoldedOutputIsConcatenation ==
    (last = "GenerateRawHeaders" /\ NoFoldingNeeded)
    => /\ generated.returned
       /\ generated.text = Concat([i \in 1..Len(headers) |-> HeaderLineText(headers[i])])
                           \o <<13, 10>>
       /\ headers = <<>> => generated.text = <<13, 10>>

\* Three headers, not all alike, under a positive limit that each line fits.
C24_Witness ==
    /\ last = "GenerateRawHeaders"
    /\ lineLengthLimit > 0
    /\ Len(headers) = 3
    /\ headers[1] # headers[2]
    /\ NoFoldingNeeded
    /\ \E i \in 1..3 : Len(HeaderLineText(headers[i])) = lineLengthLimit
    /\ Len(PhysicalLines(generated.text)) = 4

-----------------------------------------------------------------------------
(* C25 *)

\* What follows the ':' of the one header line probed:
\*   ""  " "  <tab>  " " <tab> " "  " v "  <tab> "v w" <tab>
ProbeValueTexts ==
    { <<>>, <<32>>, <<9>>, <<32, 9, 32>>, <<32, 118, 32>>, <<9, 118, 32, 119, 9>> }

\* C25: every value stored by ParseRawMessage holds no CRLF and neither starts
\* nor ends with a space or tab; on an empty instance without a limit a line
\*  "n:" text  is accepted and stores the text without the spaces and tabs at
\* its ends, which is the empty value when the text is nothing or only spaces
\* and tabs.
C25_StoredValuesAreTrimmed ==
    /\ call.op = "ParseRawMessage"
          => \A i \in (Len(pre) + 1)..Len(headers) :
                LET v == headers[i].value
                IN /\ Find(v, <<13, 10>>, 0) = npos
                   /\ v # <<>> => (~IsWsp(v[1]) /\ ~IsWsp(v[Len(v)]))
    /\ (headers = <<>> /\ lineLengthLimit = 0)
          => \A t \in ProbeValueTexts :
                LET r == ParseRawMessageOn(headers, lineLengthLimit,
                                           <<110, 58>> \o t \o <<13, 10, 13, 10>>)
                IN /\ r.ok
                   /\ r.headers = <<[name |-> <<110>>, value |-> Trimmed(t)]>>
                   /\ (\A k \in 1..Len(t) : IsWsp(t[k])) => r.headers[1].value = <<>>

\* An accepted message with the lines "A:" and "a: b": an empty value and a
\* value that lost its leading space are stored.
C25_Witness ==
    /\ call.op = "ParseRawMessage"
    /\ call.ok
    /\ Len(headers) = Len(pre) + 2
    /\ \E i \in (Len(pre) + 1)..Len(headers) :
          headers[i] = [name |-> <<65>>, value |-> <<>>]
    /\ \E i \in (Len(pre) + 1)..Len(headers) :
          headers[i] = [name |-> <<97>>, value |-> <<98>>]
    /\ LET block == HeaderBlockLines(call.rawMessage)
       IN \E j \in 1..Len(block) : block[j] = <<97, 58, 32, 98>>

-----------------------------------------------------------------------------
(* C26 *)

\* The limit is one under which no header can run the fold scan out of the
\* composed line: any limit but 1, or no header at all.
ScanStaysInLine == lineLengthLimit # 1 \/ headers = <<>>

-----------------------------------------------------------------------------
(* C27 *)

\* C27: under a limit L > 0 the break that ends a continuation segment
\* starting at offset s lies at most at s + L - 3: every emitted line that
\* continues a header and is itself continued is, with its leading space and
\* its CRLF, at most L long.
C27_LaterLinesReserveThree ==
    (last = "GenerateRawHeaders" /\ lineLengthLimit > 0 /\ generated.returned)
    => LET lines == PhysicalLines(generated.text)
       IN \A j \in 1..(Len(lines) - 1) :
             (StartsWithWsp(lines[j]) /\ StartsWithWsp(lines[j + 1]))
                => Len(lines[j]) + 2 <= lineLengthLimit

-----------------------------------------------------------------------------
(* C28 *)

\* What a header gives to the output under limit L: its folded lines, or
\* nothing when it cannot be folded.
EmittedFor(L, h) ==
    LET folded == FoldedByRule(L, HeaderLineText(h), 0)
    IN IF folded.defined THEN folded.text ELSE <<>>

\* The header has a first break under L and a later rest with none.
FailsAfterFirstPart(L, h) ==
    /\ ~FoldedByRule(L, HeaderLineText(h), 0).defined
    /\ Len(HeaderLineText(h)) > L
    /\ BreakCandidates(L, HeaderLineText(h), 0) # {}

-----------------------------------------------------------------------------
(* C29 *)

\* Words of at least one character separated by single spaces.
IsSingleSpacedWords(v) ==
    /\ v # <<>>
    /\ \A i \in 1..Len(v) : v[i] = 32 \/ IsPrintable(v[i])
    /\ v[1] # 32 /\ v[Len(v)] # 32
    /\ \A i \in 1..(Len(v) - 1) : ~(v[i] = 32 /\ v[i + 1] = 32)

IsPlainName(n) == n # <<>> /\ \A i \in 1..Len(n) : IsPrintable(n[i]) /\ n[i] # 58

\* C29: under a limit L > 0, for a collection of plain names and values of
\* single-spaced words of which GenerateRawHeaders writes every header, a fresh
\* instance with the same limit parses the output with success and holds the
\* same names and values in the same order.  Stated for the collections that
\* hold a header, which leaves the limits of 2 and more.
C29_GenerateThenParse ==
    (/\ last = "GenerateRawHeaders"
     /\ lineLengthLimit > 1
     /\ headers # <<>>
     /\ generated.returned
     /\ \A i \in 1..Len(headers) :
           /\ IsPlainName(headers[i].name)
           /\ IsSingleSpacedWords(headers[i].value)
           /\ GenerateHeader(lineLengthLimit, headers[i]).text # <<>>)
    => LET parsed == ParseRawMessageOn(<<>>, lineLengthLimit, generated.text)
       IN parsed.ok /\ parsed.headers = headers

-----------------------------------------------------------------------------
(* C30 *)

\* C30: under every limit L > 0, 1 and 2 included, the upper bound of the fold
\* scan, startOffset + L - reservedCharacters, does not wrap around for any
\* header, so the scan stays inside the composed line and GenerateRawHeaders
\* returns.
C30_ScanBoundDoesNotWrap ==
    (last = "GenerateRawHeaders" /\ lineLengthLimit > 0)
    => /\ ~GenerateRawHeadersOf(headers, lineLengthLimit).undefined
       /\ generated.returned

=============================================================================
